---- MODULE Spec2Model ----
(***************************************************************************)
(* Model of the call analysis pipeline: the record store (data/calls),     *)
(* ingestion (storage.py), the five per-call analysis stages               *)
(* (analysis_*.py, analysis_runner.py), the full pipeline                  *)
(* (run_full_pipeline.py), the pydantic schemas (schemas.py) and the       *)
(* Chroma index build (vectorstore.py).                                    *)
(*                                                                         *)
(* Encoding of values.  A JSON object is a function from its keys to JSON  *)
(* values; the JSON value null is None == <<>> and a JSON scalar v is      *)
(* Some(v) == <<v>>.  A pydantic model is a record; an Optional field      *)
(* holds None or Some(v), a non-Optional field holds the bare value.       *)
(***************************************************************************)
EXTENDS Integers, Sequences, FiniteSets, TLC

None == <<>>
Some(v) == <<v>>
Has(data, k) == k \in DOMAIN data

(***************************************************************************)
(* schemas.py                                                              *)
(***************************************************************************)
SentimentLabel == {"positive", "neutral", "negative"}
RiskLevel == {"low", "medium", "high", "critical"}
ResolutionStatus == {"resolved", "partially_resolved", "unresolved"}

Facets ==
    {"sentiment", "intent_and_topics", "call_quality",
     "compliance_and_risk", "outcome_and_followup"}

Valid(m) == [ok |-> TRUE, model |-> m]
Invalid(why) == [ok |-> FALSE, error |-> why]

\* Optional[X] = None: an absent key takes the default None, null is accepted.
OptionalField(data, k) == IF Has(data, k) THEN data[k] ELSE None

\* EnumOk as it would be if any string were taken for an enum member.
Mut_EnumOk(data, k, enum) == data[k] # None

\* A str-Enum field: the value must be a member of the enumeration.
EnumOk(data, k, enum) == data[k] \in {Some(l) : l \in enum}

\* class SentimentAnalysis: overall is required (Field(...)).
SentimentAnalysis(data) ==
    IF ~Has(data, "overall") THEN Invalid("missing")
    ELSE IF ~EnumOk(data, "overall", SentimentLabel) THEN Invalid("enum")
    ELSE Valid([overall |-> data["overall"][1],
                score |-> OptionalField(data, "score")])

\* class IntentTopicsAnalysis: every field has a default.
IntentTopicsAnalysis(data) ==
    Valid([primary_intent |-> OptionalField(data, "primary_intent"),
           notes |-> OptionalField(data, "notes")])

\* class CallQualityAnalysis: Optional[int] without ge/le constraints.
CallQualityAnalysis(data) ==
    Valid([overall_quality_score |-> OptionalField(data, "overall_quality_score"),
           notes |-> OptionalField(data, "notes")])

\* class ComplianceRiskAnalysis: risk_level has default RiskLevel.low.
ComplianceRiskAnalysis(data) ==
    IF Has(data, "risk_level") /\ ~EnumOk(data, "risk_level", RiskLevel)
    THEN Invalid("enum")
    ELSE Valid([risk_level |-> IF Has(data, "risk_level")
                                  THEN data["risk_level"][1] ELSE "low",
                notes |-> OptionalField(data, "notes")])

\* class OutcomeFollowupAnalysis: resolution_status has default unresolved,
\* escalation_required has default False.
OutcomeFollowupAnalysis(data) ==
    IF Has(data, "resolution_status")
       /\ ~EnumOk(data, "resolution_status", ResolutionStatus)
    THEN Invalid("enum")
    ELSE IF Has(data, "escalation_required") /\ data["escalation_required"] = None
    THEN Invalid("type")
    ELSE Valid([resolution_status |->
                    IF Has(data, "resolution_status")
                    THEN data["resolution_status"][1] ELSE "unresolved",
                escalation_required |->
                    IF Has(data, "escalation_required")
                    THEN data["escalation_required"][1] ELSE FALSE])

\* class CustomMetrics: every field has a default.
CustomMetrics(data) ==
    Valid([appointment_booked |-> OptionalField(data, "appointment_booked"),
           extra |-> IF Has(data, "extra") THEN data["extra"] ELSE <<>>])

\* CustomMetrics.model_dump(mode="json").
CustomMetrics_model_dump(m) ==
    [appointment_booked |-> m.appointment_booked, extra |-> m.extra]

\* <Model>.model_validate(data) of the facet's class.
model_validate(f, data) ==
    CASE f = "sentiment" -> SentimentAnalysis(data)
      [] f = "intent_and_topics" -> IntentTopicsAnalysis(data)
      [] f = "call_quality" -> CallQualityAnalysis(data)
      [] f = "compliance_and_risk" -> ComplianceRiskAnalysis(data)
      [] f = "outcome_and_followup" -> OutcomeFollowupAnalysis(data)

\* model_dump as it would be if the fields score and notes were left out.
Mut_model_dump(f, m) ==
    CASE f = "sentiment" ->
            [overall |-> Some(m.overall)]
      [] f = "intent_and_topics" ->
            [primary_intent |-> m.primary_intent]
      [] f = "call_quality" ->
            [overall_quality_score |-> m.overall_quality_score]
      [] f = "compliance_and_risk" ->
            [risk_level |-> Some(m.risk_level)]
      [] f = "outcome_and_followup" ->
            [resolution_status |-> Some(m.resolution_status),
             escalation_required |-> Some(m.escalation_required)]

\* <Model>.model_dump(mode="json"): enum members become their string values.
model_dump(f, m) ==
    CASE f = "sentiment" ->
            [overall |-> Some(m.overall), score |-> m.score]
      [] f = "intent_and_topics" ->
            [primary_intent |-> m.primary_intent, notes |-> m.notes]
      [] f = "call_quality" ->
            [overall_quality_score |-> m.overall_quality_score, notes |-> m.notes]
      [] f = "compliance_and_risk" ->
            [risk_level |-> Some(m.risk_level), notes |-> m.notes]
      [] f = "outcome_and_followup" ->
            [resolution_status |-> Some(m.resolution_status),
             escalation_required |-> Some(m.escalation_required)]

(***************************************************************************)
(* The JSON objects the oracle may answer with, per facet: every object    *)
(* over a subset of the keys below, one of which no schema defines.        *)
(***************************************************************************)
FieldVals(f) ==
    CASE f = "sentiment" ->
            [overall |-> {Some(l) : l \in SentimentLabel} \cup {Some("angry"), None},
             score |-> {None, Some(1)},
             extra_field |-> {Some("x")}]
      [] f = "intent_and_topics" ->
            [primary_intent |-> {None, Some("billing")},
             notes |-> {None, Some("n")},
             extra_field |-> {Some("x")}]
      [] f = "call_quality" ->
            [overall_quality_score |-> {None, Some(50), Some(150)},
             notes |-> {None, Some("n")},
             extra_field |-> {Some("x")}]
      [] f = "compliance_and_risk" ->
            [risk_level |-> {Some(l) : l \in RiskLevel} \cup {Some("severe"), None},
             notes |-> {None, Some("n")},
             extra_field |-> {Some("x")}]
      [] f = "outcome_and_followup" ->
            [resolution_status |->
                 {Some(l) : l \in ResolutionStatus} \cup {Some("pending"), None},
             escalation_required |-> {Some(TRUE), Some(FALSE)},
             extra_field |-> {Some("x")}]

\* The objects with key k absent, or present with a value of V.
OptKey(k, V) == {<<>>} \cup {[x \in {k} |-> v] : v \in V}

Payloads(f) ==
    LET fv == FieldVals(f)
        ks == DOMAIN fv
        RECURSIVE Build(_)
        Build(K) ==
            IF K = {} THEN {<<>>}
            ELSE LET k == CHOOSE x \in K : TRUE
                 IN  {a @@ b : a \in OptKey(k, fv[k]), b \in Build(K \ {k})}
    IN  Build(ks)

(***************************************************************************)
(* Bounds of the model.                                                    *)
(***************************************************************************)
\* Ingestion runs (each reads the clock once for created_at).
MaxNow == 2
\* Oracle invocations over the whole behaviour.
MaxOracleCalls == 2

(***************************************************************************)
(* ingestion.py, transcription.py: the recordings directory.  A recording  *)
(* is its path, the path's stem and its modification time in tenths of a   *)
(* second (st_mtime is a float).                                           *)
(***************************************************************************)
Recordings ==
    { [path |-> "recordings/a/x.wav", stem |-> "x", modified_time |-> 10],
      [path |-> "recordings/b/x.mp3", stem |-> "x", modified_time |-> 15],
      [path |-> "recordings/y.wav", stem |-> "y", modified_time |-> 12] }

\* The files of the recordings directory in the behaviours of Spec.
RecordingsDir ==
    { r \in Recordings : r.path \in {"recordings/a/x.wav", "recordings/y.wav"} }

\* The texts a transcription may give: whitespace only, or words.
Transcripts == {" ", "Hello"}

\* str.strip() of a transcript.
strip(t) == IF t = " " THEN "" ELSE t

\* The order of str on the stems used here.
StemRank == [x |-> 1, y |-> 2]

\* The elements of S as a sequence ascending by key (keys are distinct).
RECURSIVE SortBy(_, _)
SortBy(S, key) ==
    IF S = {} THEN <<>>
    ELSE LET m == CHOOSE a \in S : \A b \in S : key[a] <= key[b]
         IN  <<m>> \o SortBy(S \ {m}, key)

\* discover_wav_recordings: sorted by modification time, oldest first.
discover_wav_recordings(dir) ==
    SortBy(dir, [r \in dir |-> r.modified_time])

(***************************************************************************)
(* storage.py                                                              *)
(***************************************************************************)
\* generate_call_id: f"{stem}_{int(modified_time)}", kept as the pair.
generate_call_id(recording) ==
    <<recording.stem, recording.modified_time \div 10>>

CallIds == {generate_call_id(r) : r \in Recordings}

build_call_metadata(recording, client_id, utcnow) ==
    [call_id |-> generate_call_id(recording),
     client_id |-> client_id,
     audio_file |-> recording.path,
     extra_metadata |-> [modified_time |-> recording.modified_time,
                         created_at |-> utcnow]]

\* The CallAnalysis model with only metadata and transcript filled.
build_call_analysis_from_transcription(result, client_id, utcnow) ==
    [metadata |-> build_call_metadata(result.recording, client_id, utcnow),
     transcript |-> result.text,
     sentiment |-> None,
     intent_and_topics |-> None,
     call_quality |-> None,
     compliance_and_risk |-> None,
     outcome_and_followup |-> None,
     custom_metrics |-> None,
     raw_llm_outputs |-> <<>>]

\* CallAnalysis.model_dump(mode="json"): the JSON document of a record.
CallAnalysis_model_dump(call) ==
    [k \in DOMAIN call |->
        IF k \in Facets /\ call[k] # None THEN model_dump(k, call[k])
        ELSE IF k = "custom_metrics" /\ call[k] # None
        THEN CustomMetrics_model_dump(call[k])
        ELSE call[k]]

\* The fields of class CallAnalysis; pydantic ignores any other key of the
\* data it validates.
CallAnalysisFields ==
    {"metadata", "transcript", "custom_metrics", "raw_llm_outputs"} \cup Facets

\* The content of a file opened with "w" whose json.dump did not finish:
\* empty, or the beginning of the JSON text.
Truncated == [json |-> FALSE]

\* load_call: json.load of the file, then CallAnalysis.model_validate(data).
CallAnalysis_model_validate(data) ==
    IF data = Truncated THEN Invalid("JSONDecodeError")
    ELSE IF \E f \in Facets : data[f] # None /\ ~model_validate(f, data[f]).ok
    THEN Invalid("ValidationError")
    ELSE Valid([k \in DOMAIN data \cap CallAnalysisFields |->
                   IF k \in Facets /\ data[k] # None
                   THEN model_validate(k, data[k]).model
                   ELSE IF k = "custom_metrics" /\ data[k] # None
                   THEN CustomMetrics(data[k]).model
                   ELSE data[k]])

\* write_file as it would be if every file of the directory were written.
Mut_write_file(st, path, doc) ==
    [p \in DOMAIN st \cup {path} |-> doc]

\* Writing a file of data/calls: the file is created or overwritten.
write_file(st, path, doc) ==
    [p \in DOMAIN st \cup {path} |-> IF p = path THEN doc ELSE st[p]]

\* save_call_analysis as it would be if the file were named after the stem
\* of the recording alone, without the modification time.
Mut_save_call_analysis(st, call_analysis) ==
    write_file(st, <<call_analysis.metadata.call_id[1], 0>>,
               CallAnalysis_model_dump(call_analysis))

\* save_call_analysis: data/calls/{call_id}.json, opened with "w".
save_call_analysis(st, call_analysis) ==
    write_file(st, call_analysis.metadata.call_id,
               CallAnalysis_model_dump(call_analysis))

\* save_transcription_results: one save per transcription result, in order.
RECURSIVE save_transcription_results(_, _, _, _)
save_transcription_results(st, results, client_id, utcnow) ==
    IF results = <<>> THEN st
    ELSE save_transcription_results(
             save_call_analysis(st,
                 build_call_analysis_from_transcription(Head(results), client_id, utcnow)),
             Tail(results), client_id, utcnow)

\* transcribe_recordings: a recording whose transcription raised is left out.
RECURSIVE transcribe_recordings(_, _)
transcribe_recordings(recordings, text) ==
    IF recordings = <<>> THEN <<>>
    ELSE LET rec == Head(recordings)
             rest == transcribe_recordings(Tail(recordings), text)
         IN  IF rec \in DOMAIN text
             THEN <<[recording |-> rec, text |-> text[rec]]>> \o rest
             ELSE rest

(***************************************************************************)
(* analysis_runner.py, analysis_*.py                                       *)
(***************************************************************************)
\* run_full_pipeline.main: the order of the five passes.
StageOrder ==
    <<"sentiment", "intent_and_topics", "call_quality",
      "compliance_and_risk", "outcome_and_followup">>

\* list_call_files: sorted(calls_dir.glob("*.json")).
list_call_files(st) ==
    SortBy(DOMAIN st, [id \in DOMAIN st |-> StemRank[id[1]] * 100 + id[2]])

\* What chain.invoke may do: raise, or return a response whose content is
\* not a str, is text that is not JSON, or is the text of a JSON object.
Transport == [kind |-> "raise"]
NonText == [kind |-> "content", str |-> FALSE]
BadJson == [kind |-> "content", str |-> TRUE, json |-> FALSE]
JsonText(d) == [kind |-> "content", str |-> TRUE, json |-> TRUE, data |-> d]

OraclePayloads(f) ==
    CASE f = "sentiment" ->
            { [overall |-> Some("neutral"), extra_field |-> Some("x")],
              [overall |-> Some("angry")],
              [score |-> Some(1)] }
      [] f = "intent_and_topics" ->
            { [primary_intent |-> Some("billing")] }
      [] f = "call_quality" ->
            { [overall_quality_score |-> Some(50)],
              [overall_quality_score |-> Some(150)] }
      [] f = "compliance_and_risk" ->
            { [risk_level |-> Some("high")], <<>>, [risk_level |-> Some("severe")] }
      [] f = "outcome_and_followup" ->
            { [escalation_required |-> Some(TRUE)],
              [resolution_status |-> Some("pending")] }

OracleResponses(f) ==
    {Transport, NonText, BadJson} \cup {JsonText(d) : d \in OraclePayloads(f)}

\* analyze_for_call as it would be if text that is not JSON were read as {}.
Mut_analyze_for_call(f, response) ==
    IF response.kind = "raise" THEN Invalid("TransportError")
    ELSE IF ~response.str THEN Invalid("ValueError: expected string content")
    ELSE LET data == IF response.json THEN response.data ELSE <<>>
             v == model_validate(f, data)
         IN  IF ~v.ok THEN Invalid("ValidationError")
             ELSE [ok |-> TRUE, model |-> v.model, data |-> data]

\* analyze_<facet>_for_call after chain.invoke returned or raised: the
\* (model, data) pair, or the exception that leaves the function.
analyze_for_call(f, response) ==
    IF response.kind = "raise" THEN Invalid("TransportError")
    ELSE IF ~response.str THEN Invalid("ValueError: expected string content")
    ELSE IF ~response.json THEN Invalid("ValueError: failed to parse JSON")
    ELSE LET v == model_validate(f, response.data)
         IN  IF ~v.ok THEN Invalid("ValidationError")
             ELSE [ok |-> TRUE, model |-> v.model, data |-> response.data]

\* The class of the exception analyze_<facet>_for_call raises: ValueError
\* for content that is not a str and for text that is not JSON, pydantic's
\* ValidationError for a payload the schema rejects, the client library's
\* error for a failed call.
exception_type(error) ==
    CASE error = "ValueError: expected string content" -> "ValueError"
      [] error = "ValueError: failed to parse JSON" -> "ValueError"
      [] error = "ValidationError" -> "ValidationError"
      [] error = "TransportError" -> "TransportError"
      [] OTHER -> error

\* set_facet as it would be if raw_llm_outputs were assigned a fresh dict.
Mut_set_facet(call, f, model, raw_json) ==
    [call EXCEPT ![f] = model,
                 !.raw_llm_outputs = [g \in {f} |-> raw_json]]

\* call.<facet> = model; call.raw_llm_outputs[<facet>] = raw_json.
set_facet(call, f, model, raw_json) ==
    [call EXCEPT ![f] = model,
                 !.raw_llm_outputs =
                     [g \in DOMAIN call.raw_llm_outputs \cup {f} |->
                         IF g = f THEN raw_json ELSE call.raw_llm_outputs[g]]]

\* save_call(path, call).
save_call(st, path, call) == write_file(st, path, CallAnalysis_model_dump(call))

\* already_present as it would be without the check.
Mut_already_present(call, f) == FALSE

\* "if call.<facet> is not None: continue".
already_present(call, f) == call[f] # None

(***************************************************************************)
(* vectorstore.py                                                          *)
(***************************************************************************)
\* The metadata dict of one index document.
index_metadata(call) ==
    [call_id |-> call.metadata.call_id,
     client_id |-> call.metadata.client_id,
     audio_file |-> call.metadata.audio_file,
     sentiment |-> IF call.sentiment # None
                   THEN Some(call.sentiment.overall) ELSE None,
     primary_intent |-> IF call.intent_and_topics # None
                        THEN call.intent_and_topics.primary_intent ELSE None,
     risk_level |-> IF call.compliance_and_risk # None
                    THEN Some(call.compliance_and_risk.risk_level) ELSE None,
     quality_score |-> IF call.call_quality # None
                       THEN call.call_quality.overall_quality_score ELSE None]

\* upsert as it would be if it were collection.add: an id already in the
\* collection keeps its document.
RECURSIVE Mut_upsert(_, _)
Mut_upsert(idx, entries) ==
    IF entries = <<>> THEN idx
    ELSE LET e == Head(entries)
         IN  Mut_upsert([i \in DOMAIN idx \cup {e.id} |->
                            IF i \in DOMAIN idx THEN idx[i]
                            ELSE [document |-> e.document, metadata |-> e.metadata]],
                        Tail(entries))

\* collection.upsert(ids, documents, metadatas): each id is inserted or
\* replaced.
RECURSIVE upsert(_, _)
upsert(idx, entries) ==
    IF entries = <<>> THEN idx
    ELSE LET e == Head(entries)
         IN  upsert([i \in DOMAIN idx \cup {e.id} |->
                        IF i = e.id
                        THEN [document |-> e.document, metadata |-> e.metadata]
                        ELSE idx[i]],
                    Tail(entries))

\* The loop of build_calls_index over the call files: the entries collected
\* for the upsert, records with a blank transcript left out.
RECURSIVE collect_entries(_, _)
collect_entries(st, paths) ==
    IF paths = <<>> THEN <<>>
    ELSE LET call == CallAnalysis_model_validate(st[Head(paths)]).model
             rest == collect_entries(st, Tail(paths))
         IN  IF strip(call.transcript) = "" THEN rest
             ELSE <<[id |-> call.metadata.call_id,
                     document |-> call.transcript,
                     metadata |-> index_metadata(call)]>> \o rest

\* build_calls_index as it would be if a file that fails to load were
\* passed over and the others upserted.
Mut_build_calls_index(st, idx) ==
    LET call_paths_ == list_call_files(st)
        loads(p) == CallAnalysis_model_validate(st[p]).ok
        entries == collect_entries(st, SelectSeq(call_paths_, loads))
    IN  IF call_paths_ = <<>> \/ entries = <<>> THEN idx ELSE upsert(idx, entries)

\* build_calls_index: nothing is upserted when there is no call file, when
\* load_call_from_json raises for a file (the exception leaves the loop,
\* before the upsert), or when there is no non-blank transcript.
build_calls_index(st, idx) ==
    LET call_paths_ == list_call_files(st)
        entries == collect_entries(st, call_paths_)
    IN  IF call_paths_ = <<>> THEN idx
        ELSE IF \E i \in 1..Len(call_paths_) :
                   ~CallAnalysis_model_validate(st[call_paths_[i]]).ok
        THEN idx
        ELSE IF entries = <<>> THEN idx
        ELSE upsert(idx, entries)

(***************************************************************************)
(* State                                                                   *)
(***************************************************************************)
VARIABLES
    recordings,   \* the audio files of the recordings directory
    store,        \* data/calls: call file name (the call id) -> JSON document
    now,          \* the clock read by datetime.utcnow()
    index,        \* the Chroma collection: id -> document and metadata
    stage,        \* the facet of the run_<facet>_for_all_calls in progress or last run
    call_paths,   \* its call_paths
    pos,          \* position of its loop in call_paths
    pc,           \* "idle", "load" (top of the loop body) or "analyze"
    call,         \* its local variable call
    pipeline,     \* 0, or the number of the pass run_full_pipeline.main is at
    raised,       \* the exception that ended the last run, or "none"
    response,     \* what the last chain.invoke of the run did, or NoResponse
    invocations,  \* history: chain.invoke calls per (call id, facet)
    runLog,       \* history: records the run processed, skipped, failed on, and
                  \* its chain.invoke calls per record
    lastRun,      \* history: facet, outcome, final store and return value of the
                  \* last ended run
    first,        \* history: lastRun at the start of a run that repeats it
    builds,       \* history: index builds since the store last changed
    exit,         \* how the last run_full_pipeline process ended, or NoExit
    other,        \* a second run_<facet>_for_all_calls process: its stage,
                  \* call_paths, position, local call and the records it saved
    saved,        \* history: paths of the recordings whose record was saved
    vIn, vOut     \* input and result of one call of a function taken on its own

vars == <<recordings, store, now, index, stage, call_paths, pos, pc, call, pipeline,
          raised, response,
          invocations, runLog, lastRun, first, builds, exit, other, saved, vIn, vOut>>

runVars == <<stage, call_paths, pos, pc, call, pipeline, raised, response, runLog,
             other>>

EmptyLog ==
    [processed |-> {}, skipped |-> {}, failed |-> {}, calls |-> [id \in CallIds |-> 0]]
NoOther ==
    [pc |-> "idle", stage |-> "none", call_paths |-> <<>>, pos |-> 0, call |-> None,
     processed |-> {}]
NoRun == [stage |-> "none"]
NoResponse == [kind |-> "none"]
NotRun == [ok |-> FALSE, error |-> "not run"]
NoExit == [why |-> "none"]

\* The end of the Python process: main() returned (0) or an exception left it (1).
Exit(code, why) == [code |-> code, why |-> why]

RECURSIVE Sum(_, _)
Sum(fn, S) ==
    IF S = {} THEN 0
    ELSE LET x == CHOOSE y \in S : TRUE IN fn[x] + Sum(fn, S \ {x})

TotalInvocations == Sum(invocations, DOMAIN invocations)

InitState(dir, idx, st) ==
    /\ recordings = dir
    /\ store = st
    /\ now = 0
    /\ index = idx
    /\ stage = "none"
    /\ call_paths = <<>>
    /\ pos = 0
    /\ pc = "idle"
    /\ call = None
    /\ pipeline = 0
    /\ raised = "none"
    /\ response = NoResponse
    /\ invocations = [p \in CallIds \X Facets |-> 0]
    /\ runLog = EmptyLog
    /\ lastRun = NoRun
    /\ first = NoRun
    /\ builds = 0
    /\ exit = NoExit
    /\ other = NoOther
    /\ saved = {}

InitOrchestrator == InitState(RecordingsDir, <<>>, <<>>)

Init ==
    /\ InitOrchestrator
    /\ vIn = [facet |-> "sentiment", data |-> <<>>]
    /\ vOut = NotRun

(***************************************************************************)
(* Ingestion: discover, transcribe, save (main.py, run_full_pipeline.py)   *)
(***************************************************************************)
\* The transcriptions Whisper may give: a text for each recording whose
\* transcription did not raise.
TranscriptionOutcomes == UNION {[S -> Transcripts] : S \in SUBSET recordings}

Ingest(text) ==
    /\ now' = now + 1
    /\ store' = save_transcription_results(
                    store, transcribe_recordings(discover_wav_recordings(recordings), text),
                    "client_123", now + 1)
    /\ lastRun' = NoRun
    /\ first' = NoRun
    /\ builds' = IF store' = store THEN builds ELSE 0
    /\ stage' = "none"
    /\ raised' = "none"
    /\ response' = NoResponse
    /\ runLog' = EmptyLog
    /\ other' = NoOther
    /\ saved' = saved \cup {r.path : r \in DOMAIN text}
    /\ UNCHANGED <<recordings, call_paths, pos, pc, call>>

\* main.py main().
MainIngest ==
    /\ pc = "idle" /\ pipeline = 0 /\ other.pc = "idle"
    /\ now < MaxNow
    /\ \E text \in TranscriptionOutcomes : Ingest(text)
    /\ UNCHANGED <<index, pipeline, invocations, exit, vIn, vOut>>

\* run_full_pipeline.py main() up to step [3/5]: without the API key, or
\* with no recording found, it prints a message and returns.
FullPipelineStart ==
    /\ pc = "idle" /\ pipeline = 0
    /\ now < MaxNow
    /\ \E has_key \in BOOLEAN, text \in TranscriptionOutcomes :
          IF ~has_key
          THEN /\ exit' = Exit(0, "no key")
               /\ UNCHANGED <<recordings, store, now, index, runVars, invocations,
                              lastRun, first, builds, saved, vIn, vOut>>
          ELSE IF discover_wav_recordings(recordings) = <<>>
          THEN /\ exit' = Exit(0, "no recordings")
               /\ UNCHANGED <<recordings, store, now, index, runVars, invocations,
                              lastRun, first, builds, saved, vIn, vOut>>
          ELSE /\ Ingest(text)
               /\ pipeline' = 1
               /\ exit' = NoExit
               /\ UNCHANGED <<index, invocations, vIn, vOut>>

(***************************************************************************)
(* run_<facet>_for_all_calls                                               *)
(***************************************************************************)
\* The pass after this one in run_full_pipeline.main; an exception leaves main.
NextPass(ok) == IF ok /\ pipeline \in 1..4 THEN pipeline + 1 ELSE 0

\* The function returns (ok) or an exception leaves it, with store st.
RunEnds(f, ok, st) ==
    /\ pc' = "idle"
    /\ pos' = 0
    /\ call' = None
    /\ call_paths' = <<>>
    /\ pipeline' = NextPass(ok)
    /\ lastRun' = [stage |-> f, ok |-> ok, store |-> st, returned |-> None]
    /\ exit' = IF pipeline = 0 THEN exit
               ELSE IF ~ok THEN Exit(1, "exception")
               ELSE IF pipeline = 5 THEN Exit(0, "done")
               ELSE exit

\* The end of one loop iteration.
Advance(st) ==
    IF pos = Len(call_paths) THEN RunEnds(stage, TRUE, st)
    ELSE /\ pos' = pos + 1
         /\ pc' = "load"
         /\ call' = None
         /\ UNCHANGED <<call_paths, pipeline, lastRun, exit>>

\* Entry of run_<f>_for_all_calls: list the files; return if there is none.
RunBegin(f) ==
    /\ stage' = f
    /\ raised' = "none"
    /\ response' = NoResponse
    /\ runLog' = EmptyLog
    /\ first' = IF lastRun.stage = f /\ lastRun.store = store THEN lastRun ELSE NoRun
    /\ IF list_call_files(store) = <<>>
       THEN RunEnds(f, TRUE, store)
       ELSE /\ call_paths' = list_call_files(store)
            /\ pos' = 1
            /\ pc' = "load"
            /\ call' = None
            /\ pipeline' = pipeline
            /\ lastRun' = NoRun
            /\ exit' = exit
    /\ UNCHANGED <<recordings, store, now, index, invocations, builds, other, saved,
                   vIn, vOut>>

\* A caller runs one stage on its own.
StartStage ==
    /\ pc = "idle" /\ pipeline = 0
    /\ \E f \in Facets : RunBegin(f)

\* run_full_pipeline.main step [4/5]: the next of the five passes.
PipelineStage ==
    /\ pc = "idle" /\ pipeline \in 1..5
    /\ RunBegin(StageOrder[pipeline])

\* Top of the loop body: load_call, then the check for an existing facet.
LoadStep ==
    /\ pc = "load"
    /\ LET path == call_paths[pos]
           loaded == CallAnalysis_model_validate(store[path])
       IN  IF ~loaded.ok
           THEN /\ raised' = loaded.error
                /\ runLog' = [runLog EXCEPT !.failed = @ \cup {path}]
                /\ RunEnds(stage, FALSE, store)
           ELSE IF already_present(loaded.model, stage)
           THEN /\ runLog' = [runLog EXCEPT !.skipped = @ \cup {path}]
                /\ Advance(store)
                /\ UNCHANGED raised
           ELSE /\ pc' = "analyze"
                /\ call' = loaded.model
                /\ UNCHANGED <<call_paths, pos, pipeline, raised, runLog, lastRun, exit>>
    /\ UNCHANGED <<recordings, store, now, index, stage, response, invocations, first,
                   builds, other, saved, vIn, vOut>>

\* store_after as it would be if the raw output were not kept.
Mut_store_after(st, path, cl, f, res) ==
    IF res.ok THEN save_call(st, path, [cl EXCEPT ![f] = res.model])
    ELSE st

\* The store after the rest of the loop body, given what analyze returned.
store_after(st, path, cl, f, res) ==
    IF res.ok THEN save_call(st, path, set_facet(cl, f, res.model, res.data))
    ELSE st

\* Rest of the loop body: analyze_<facet>_for_call, assignment, save_call.
AnalyzeStep ==
    /\ pc = "analyze"
    /\ TotalInvocations < MaxOracleCalls
    /\ \E resp \in OracleResponses(stage) :
          LET path == call_paths[pos]
              res == analyze_for_call(stage, resp)
          IN  /\ response' = resp
              /\ invocations' = [invocations EXCEPT ![<<path, stage>>] = @ + 1]
              /\ store' = store_after(store, path, call, stage, res)
              /\ builds' = IF store' = store THEN builds ELSE 0
              /\ IF res.ok
                 THEN /\ runLog' = [runLog EXCEPT !.processed = @ \cup {path},
                                                  !.calls[path] = @ + 1]
                      /\ Advance(store')
                      /\ UNCHANGED raised
                 ELSE /\ raised' = res.error
                      /\ runLog' = [runLog EXCEPT !.failed = @ \cup {path},
                                                  !.calls[path] = @ + 1]
                      /\ RunEnds(stage, FALSE, store')
    /\ UNCHANGED <<recordings, now, index, stage, first, other, saved, vIn, vOut>>

(***************************************************************************)
(* run_build_index.py                                                      *)
(***************************************************************************)
MaxBuilds == 2

BuildIndex ==
    /\ pc = "idle" /\ pipeline = 0
    /\ index' = build_calls_index(store, index)
    /\ builds' = IF builds < MaxBuilds THEN builds + 1 ELSE builds
    /\ UNCHANGED <<recordings, store, now, runVars, invocations, lastRun, first,
                   exit, saved, vIn, vOut>>

\* Ingestion and stage runs in any order.
Next ==
    \/ MainIngest
    \/ StartStage
    \/ LoadStep
    \/ AnalyzeStep

Spec == Init /\ [][Next]_vars

\* Runs of the full pipeline.
NextPipeline ==
    \/ FullPipelineStart
    \/ PipelineStage
    \/ LoadStep
    \/ AnalyzeStep

\* The recordings directory holds audio files, or none.
InitPipeline ==
    /\ \E dir \in {RecordingsDir, {}} : InitState(dir, <<>>, <<>>)
    /\ vIn = [facet |-> "sentiment", data |-> <<>>]
    /\ vOut = NotRun

SpecPipeline == InitPipeline /\ [][NextPipeline]_vars

\* Ingestion, runs of the full pipeline and index builds.
NextIndex ==
    \/ MainIngest
    \/ FullPipelineStart
    \/ PipelineStage
    \/ LoadStep
    \/ AnalyzeStep
    \/ BuildIndex

SpecIndex == Init /\ [][NextIndex]_vars

(***************************************************************************)
(* model_validate on its own                                               *)
(***************************************************************************)
InitValidate ==
    /\ InitOrchestrator
    /\ vIn \in UNION {{[facet |-> f, data |-> d] : d \in Payloads(f)} : f \in Facets}
    /\ vOut = NotRun

Validate ==
    /\ vOut = NotRun
    /\ vOut' = model_validate(vIn.facet, vIn.data)
    /\ UNCHANGED <<recordings, store, now, index, runVars, invocations, lastRun,
                   first, builds, exit, saved, vIn>>

SpecValidate == InitValidate /\ [][Validate]_vars

(***************************************************************************)
(* Properties                                                              *)
(***************************************************************************)
Records == DOMAIN store
HasFacet(id, f) == store[id][f] # None
RunOver == pc = "idle" /\ stage \in Facets

\* C1 (failure isolation): a stage run in which exactly one record's oracle
\* call failed is not aborted: it has visited every record, every other
\* record has the facet afterwards, and exactly that record is reported failed.
C1_FailureIsolation ==
    (RunOver /\ Cardinality(runLog.failed) = 1) =>
        /\ runLog.processed \cup runLog.skipped \cup runLog.failed = Records
        /\ \A id \in Records \ runLog.failed : HasFacet(id, stage)

C3_AtMostOneInvocation ==
    \A p \in DOMAIN invocations : invocations[p] <= 1

\* A step of a run_<facet>_for_all_calls (ingestion begins and ends idle).
StageStep == pc # "idle" \/ pc' # "idle"

RawOf(st, id) == st[id].raw_llm_outputs

\* C4 (facets are written once): once a record's facet is non-null, no step
\* of a run of any stage changes the facet or changes or removes the
\* raw_llm_outputs entry under the facet's key.
C4_FacetNeverOverwritten ==
    [][StageStep =>
          \A id \in Records : \A f \in Facets :
              HasFacet(id, f) =>
                  /\ id \in DOMAIN store'
                  /\ store'[id][f] = store[id][f]
                  /\ f \in DOMAIN RawOf(store, id) =>
                        /\ f \in DOMAIN RawOf(store', id)
                        /\ RawOf(store', id)[f] = RawOf(store, id)[f]]_vars

\* A record that had one facet when a run of another stage saved it.
C4_Witness ==
    \E id \in Records : \E f, g \in Facets :
        /\ f # g
        /\ HasFacet(id, f) /\ HasFacet(id, g)
        /\ {f, g} \subseteq DOMAIN RawOf(store, id)

\* The enumerated field of a facet, where the facet table names one.
EnumField ==
    [sentiment |-> [key |-> "overall", values |-> SentimentLabel],
     compliance_and_risk |-> [key |-> "risk_level", values |-> RiskLevel],
     outcome_and_followup |-> [key |-> "resolution_status", values |-> ResolutionStatus]]

\* The payload carries an enumerated field with a value outside its set.
EnumOutOfSet(f, data) ==
    /\ f \in DOMAIN EnumField
    /\ Has(data, EnumField[f].key)
    /\ data[EnumField[f].key] \notin {Some(l) : l \in EnumField[f].values}

\* The oracle's response is not text, is not JSON, or violates the schema
\* by an out-of-set value.
BadResponse(f, resp) ==
    /\ resp.kind = "content"
    /\ \/ ~resp.str
       \/ ~resp.json
       \/ EnumOutOfSet(f, resp.data)

\* C5 (a failed stage leaves the record alone): when the oracle's response
\* for a record is not text, not valid JSON or violates the facet schema, an
\* error is raised and the store is left as it was: the record's facet is
\* still null and no raw_llm_outputs entry was added.
C5_FailureLeavesRecord ==
    [][(pc = "analyze" /\ pc' # "analyze" /\ BadResponse(stage, response')) =>
          /\ raised' # "none"
          /\ store' = store
          /\ store'[call_paths[pos]][stage] = None
          /\ stage \notin DOMAIN RawOf(store', call_paths[pos])]_vars

\* A compliance run that has just failed on a risk_level outside the set.
C5_Witness ==
    /\ RunOver /\ stage = "compliance_and_risk"
    /\ BadResponse(stage, response) /\ response.str /\ response.json
    /\ raised = "ValidationError"
    /\ runLog.failed # {}

\* The stored facet has its enumerated field, with a value of the set.
Conforms(f, facet) ==
    f \in DOMAIN EnumField =>
        /\ Has(facet, EnumField[f].key)
        /\ facet[EnumField[f].key] \in {Some(l) : l \in EnumField[f].values}

\* C6 (no partial facets): every non-null facet of a stored record conforms
\* to the facet's schema, and is the validated form of the payload that is
\* stored with it: it was written after parsing and validation.
C6_NoPartialFacets ==
    \A id \in Records : \A f \in Facets :
        HasFacet(id, f) =>
            /\ Conforms(f, store[id][f])
            /\ f \in DOMAIN RawOf(store, id)
            /\ model_validate(f, RawOf(store, id)[f]).ok
            /\ store[id][f] = model_dump(f, model_validate(f, RawOf(store, id)[f]).model)

\* A stored facet that is not the payload itself: an unknown field was
\* dropped, or a default was filled in.
C6_Witness ==
    \E id \in Records : \E f \in Facets :
        /\ HasFacet(id, f)
        /\ f \in DOMAIN RawOf(store, id)
        /\ store[id][f] # RawOf(store, id)[f]

\* C7 (raw outputs mirror facets): raw_llm_outputs of a stored record has a
\* facet's key if and only if the facet is non-null.
C7_RawIffFacet ==
    \A id \in Records : \A f \in Facets :
        f \in DOMAIN RawOf(store, id) <=> HasFacet(id, f)

\* A record with some facets set and others not.
C7_Witness ==
    \E id \in Records : \E f, g \in Facets :
        /\ HasFacet(id, f) /\ f \in DOMAIN RawOf(store, id)
        /\ ~HasFacet(id, g) /\ g \notin DOMAIN RawOf(store, id)

\* C8 (a record is created once): no operation recreates a stored record,
\* changes its metadata or its transcript, resets one of its facets, or
\* deletes it.
C8_CreatedOnce ==
    [][\A id \in Records :
          /\ id \in DOMAIN store'
          /\ store'[id].metadata = store[id].metadata
          /\ store'[id].transcript = store[id].transcript
          /\ \A f \in Facets : HasFacet(id, f) => store'[id][f] # None]_vars

\* The field the facet table requires of a payload, where the claim names one.
RequiredField ==
    [sentiment |-> "overall",
     compliance_and_risk |-> "risk_level",
     outcome_and_followup |-> "resolution_status"]

MissingRequired(f, data) == f \in DOMAIN RequiredField /\ ~Has(data, RequiredField[f])

\* C9 (strict validation): a payload that lacks a required field of its
\* facet, or carries an out-of-set value in an enumerated field, is rejected
\* and never defaulted into a valid facet; a field no schema defines is
\* ignored.
C9_StrictValidation ==
    vOut # NotRun =>
        /\ (MissingRequired(vIn.facet, vIn.data) \/ EnumOutOfSet(vIn.facet, vIn.data))
              => ~vOut.ok
        /\ vOut.ok => ~Has(vOut.model, "extra_field")

NonBlank == {id \in Records : strip(store[id].transcript) # ""}

\* C10 (upsert idempotence): after the index was built twice from the same
\* records, the collection holds as many documents as there are records with
\* a non-blank transcript.
C10_IndexSizeAfterTwoBuilds ==
    builds >= 2 => Cardinality(DOMAIN index) = Cardinality(NonBlank)

\* The scalar projection of a persisted record: the metadata an index
\* document is to carry for it.
Projection(doc) ==
    [call_id |-> doc.metadata.call_id,
     client_id |-> doc.metadata.client_id,
     audio_file |-> doc.metadata.audio_file,
     sentiment |-> IF doc.sentiment = None THEN None ELSE doc.sentiment.overall,
     primary_intent |-> IF doc.intent_and_topics = None THEN None
                        ELSE doc.intent_and_topics.primary_intent,
     risk_level |-> IF doc.compliance_and_risk = None THEN None
                    ELSE doc.compliance_and_risk.risk_level,
     quality_score |-> IF doc.call_quality = None THEN None
                       ELSE doc.call_quality.overall_quality_score]

MaxResults == 3

\* n_results of the search CLI.
CliNResults == 5

\* The ids of the documents of the collections searched.
SearchIds == {<<"x", 1>>, <<"y", 1>>, <<"z", 1>>}

\* The collections searched: a document for each id of a set of ids.
SearchIndexes ==
    { [id \in S |-> [document |-> "Hello",
                     metadata |-> [call_id |-> id, client_id |-> "client_123"]]] :
      S \in SUBSET SearchIds }

\* The embedding distances of a query to the documents, in tenths.
Distances == [SearchIds -> {1, 5, 9}]

\* The texts a caller may give as the query.
Queries == {"", " ", "refund"}

Min(a, b) == IF a <= b THEN a ELSE b

\* collection.query(query_texts=[query], n_results=n), first query: the
\* n nearest documents (all of them if there are fewer), nearest first, as
\* four parallel lists.  Documents at equal distance come in any order.
collection_query(idx, dist, n) ==
    LET m == Min(n, Cardinality(DOMAIN idx))
        nearest == { ids \in [1..m -> DOMAIN idx] :
                       /\ \A i, j \in 1..m : i < j =>
                             ids[i] # ids[j] /\ dist[ids[i]] <= dist[ids[j]]
                       /\ \A d \in DOMAIN idx :
                             (\A i \in 1..m : ids[i] # d) =>
                                 \A i \in 1..m : dist[ids[i]] <= dist[d] }
    IN  { [ids |-> ids,
           documents |-> [i \in 1..m |-> idx[ids[i]].document],
           metadatas |-> [i \in 1..m |-> idx[ids[i]].metadata],
           distances |-> [i \in 1..m |-> dist[ids[i]]]] : ids \in nearest }

\* build_matches as it would be if every match took the first document.
Mut_build_matches(results) ==
    [i \in 1..Len(results.ids) |->
        [id |-> results.ids[i],
         document |-> results.documents[1],
         metadata |-> results.metadatas[1],
         distance |-> results.distances[i]]]

\* The loop of semantic_search_calls over the lists collection.query gave.
build_matches(results) ==
    [i \in 1..Len(results.ids) |->
        [id |-> results.ids[i],
         document |-> results.documents[i],
         metadata |-> results.metadatas[i],
         distance |-> results.distances[i]]]

\* semantic_search_calls(query, n_results): the query is sent to the
\* collection as it is.
semantic_search_calls(query, n_results, dist) ==
    { [dispatched |-> TRUE, sent |-> query, matches |-> build_matches(results)] :
      results \in collection_query(index, dist, n_results) }

\* A caller that returns without calling semantic_search_calls.
NotDispatched(message) == [dispatched |-> FALSE, message |-> message]

InitSearch ==
    /\ \E idx \in SearchIndexes : InitState(RecordingsDir, idx, <<>>)
    /\ vIn \in [entry : {"function", "argv", "prompt", "dashboard"},
                text : Queries,
                n_results : 1..MaxResults,
                dist : Distances]
    /\ vOut = NotRun

SearchFrame ==
    UNCHANGED <<recordings, store, now, index, runVars, invocations, lastRun,
                first, builds, exit, saved, vIn>>

\* A caller calls semantic_search_calls itself.
SearchCall ==
    /\ vOut = NotRun /\ vIn.entry = "function"
    /\ vOut' \in semantic_search_calls(vIn.text, vIn.n_results, vIn.dist)
    /\ SearchFrame

\* run_search_cli.py main(): the query is the command-line arguments joined
\* by spaces, or the stripped line typed at the prompt.
SearchCli ==
    /\ vOut = NotRun /\ vIn.entry \in {"argv", "prompt"}
    /\ LET query == IF vIn.entry = "argv" THEN vIn.text ELSE strip(vIn.text)
       IN  IF query = ""
           THEN vOut' = NotDispatched("No query provided.")
           ELSE vOut' \in semantic_search_calls(query, CliNResults, vIn.dist)
    /\ SearchFrame

\* dashboard.py render_semantic_search_section(), the Search button pressed.
DashboardSearch ==
    /\ vOut = NotRun /\ vIn.entry = "dashboard"
    /\ IF strip(vIn.text) = ""
       THEN vOut' = NotDispatched("Please enter a query before searching.")
       ELSE vOut' \in semantic_search_calls(vIn.text, vIn.n_results, vIn.dist)
    /\ SearchFrame

NextSearch ==
    \/ SearchCall
    \/ SearchCli
    \/ DashboardSearch

SpecSearch == InitSearch /\ [][NextSearch]_vars

\* The n_results the entry point passes to semantic_search_calls.
RequestedResults == IF vIn.entry \in {"argv", "prompt"} THEN CliNResults ELSE vIn.n_results

\* C12 (search): a search returns min(k, index size) matches, the documents
\* closest to the query, closest first; each match carries the id, document,
\* metadata and distance of one indexed document; on an empty index it
\* returns the empty sequence.
C12_SearchNearestFirst ==
    (vOut # NotRun /\ vOut.dispatched) =>
        LET matches == vOut.matches
            n == Len(matches)
        IN  /\ n = Min(RequestedResults, Cardinality(DOMAIN index))
            /\ \A i, j \in 1..n : i < j =>
                  matches[i].id # matches[j].id
                  /\ matches[i].distance <= matches[j].distance
            /\ \A i \in 1..n :
                  /\ matches[i].id \in DOMAIN index
                  /\ matches[i].document = index[matches[i].id].document
                  /\ matches[i].metadata = index[matches[i].id].metadata
                  /\ matches[i].distance = vIn.dist[matches[i].id]
            /\ \A d \in DOMAIN index :
                  (\A i \in 1..n : matches[i].id # d) =>
                      \A i \in 1..n : matches[i].distance <= vIn.dist[d]
            /\ index = <<>> => matches = <<>>

\* The case of the spec: three documents at distances 0.1, 0.5 and 0.9,
\* k = 2, and the two closest returned.
C12_Witness ==
    /\ vOut # NotRun /\ vOut.dispatched
    /\ DOMAIN index = SearchIds
    /\ {vIn.dist[d] : d \in SearchIds} = {1, 5, 9}
    /\ Len(vOut.matches) = 2
    /\ vOut.matches[1].distance = 1 /\ vOut.matches[2].distance = 5

\* C13 (blank query): on every entry path to search, a query that is empty
\* or only whitespace is rejected by the caller and never sent to the
\* collection.
C13_BlankQueryNotDispatched ==
    (vOut # NotRun /\ strip(vIn.text) = "") => ~vOut.dispatched

\* C14 (run summary): every run of a stage returns a summary whose counts
\* processed + skipped + failed add up to the number of records visited and
\* whose failed list names exactly the records the stage failed on, also
\* when a record failed.
C14_RunSummaryReturned ==
    RunOver =>
        /\ lastRun.ok
        /\ lastRun.returned # None
        /\ lastRun.returned.processed + lastRun.returned.skipped
             + lastRun.returned.failed
           = Cardinality(runLog.processed \cup runLog.skipped \cup runLog.failed)
        /\ lastRun.returned.failed_ids = runLog.failed

\* C15 (exit codes): the full pipeline ends with exit code 0 only when it
\* ran to the end; it ends with a non-zero code when the API key is absent
\* or no recording is found; the failure of a stage on a record does not
\* end the process with an exception.
C15_ExitCodes ==
    /\ exit.why \in {"no key", "no recordings"} => exit.code # 0
    /\ (exit # NoExit /\ exit.code = 0) => exit.why = "done"
    /\ exit.why # "exception"

(***************************************************************************)
(* save_call and load_call on their own                                    *)
(***************************************************************************)
\* The models of a facet's class with the JSON object each was validated from.
FacetModels(f, payloads) ==
    { [model |-> model_validate(f, d).model, data |-> d] :
      d \in {p \in payloads : model_validate(f, p).ok} }

\* The records with the facets of F added to call in every way, each facet
\* absent or one of the models of its payloads.
RECURSIVE WithFacets(_, _, _)
WithFacets(c, F, payloads) ==
    IF F = {} THEN {c}
    ELSE LET f == CHOOSE x \in F : TRUE
             rest == WithFacets(c, F \ {f}, payloads)
         IN  rest \cup { set_facet(r, f, fm.model, fm.data) :
                         r \in rest, fm \in FacetModels(f, payloads[f]) }

\* The values of the field custom_metrics.
CustomMetricsValues ==
    { None,
      [appointment_booked |-> Some(TRUE), extra |-> <<>>],
      [appointment_booked |-> None, extra |-> [campaign |-> Some("spring")]] }

\* Valid CallAnalysis models: a record as ingestion builds it, with any
\* combination of facets an oracle answer gave, or one facet of any valid
\* payload, and any custom_metrics.
ValidCalls ==
    LET base == { build_call_analysis_from_transcription(
                      [recording |-> r, text |-> t], "client_123", 1) :
                  r \in RecordingsDir, t \in Transcripts }
        facets == UNION { WithFacets(c, Facets, [f \in Facets |-> OraclePayloads(f)]) : c \in base }
                    \cup UNION { WithFacets(c, {f}, [g \in Facets |-> Payloads(g)]) : c \in base, f \in Facets }
    IN  { [c EXCEPT !.custom_metrics = m] : c \in facets, m \in CustomMetricsValues }

InitRoundTrip ==
    /\ InitOrchestrator
    /\ vIn \in ValidCalls
    /\ vOut = NotRun

\* save_call(path, call) followed by load_call(path).
RoundTrip ==
    /\ vOut = NotRun
    /\ store' = save_call(store, vIn.metadata.call_id, vIn)
    /\ vOut' = CallAnalysis_model_validate(store'[vIn.metadata.call_id])
    /\ UNCHANGED <<recordings, now, index, runVars, invocations, lastRun,
                   first, builds, exit, saved, vIn>>

SpecRoundTrip == InitRoundTrip /\ [][RoundTrip]_vars

\* C16 (round trip): a valid record saved to the store and loaded back is
\* the same record: metadata, transcript, the five facets, custom_metrics
\* and raw_llm_outputs.
C16_RoundTrip ==
    vOut # NotRun => vOut.ok /\ vOut.model = vIn

\* A record with all five facets, raw outputs and custom metrics, saved and
\* loaded.
C16_Witness ==
    /\ vOut # NotRun /\ vOut.ok
    /\ \A f \in Facets : vOut.model[f] # None /\ f \in DOMAIN vOut.model.raw_llm_outputs
    /\ vOut.model.raw_llm_outputs.sentiment # model_dump("sentiment", vOut.model.sentiment)
    /\ vOut.model.custom_metrics # None

(***************************************************************************)
(* A recordings directory with two files of the same stem                  *)
(***************************************************************************)
\* recordings/a/x.wav and recordings/b/x.mp3, modified within one second.
InitSameStem ==
    /\ InitState({r \in Recordings : r.stem = "x"}, <<>>, <<>>)
    /\ vIn = [facet |-> "sentiment", data |-> <<>>]
    /\ vOut = NotRun

SpecSameStem == InitSameStem /\ [][Next]_vars

\* C17 (call_id unique): every recording whose record was saved has a
\* record of its own in the store; no ingestion gives two distinct
\* recordings the same call_id so that the record of one replaces the
\* record of the other.
C17_OneRecordPerRecording ==
    \A p \in saved : \E id \in Records : store[id].metadata.audio_file = p

(***************************************************************************)
(* A stage run killed while it saves a record                              *)
(***************************************************************************)
\* The process is killed inside save_call, after path.open("w") emptied the
\* file: the file is left empty or with the beginning of the JSON text, or
\* with the whole text if the kill came after the last write.
KilledInSave ==
    /\ pc = "analyze"
    /\ TotalInvocations < MaxOracleCalls
    /\ \E resp \in OracleResponses(stage) :
          LET path == call_paths[pos]
              res == analyze_for_call(stage, resp)
          IN  /\ res.ok
              /\ response' = resp
              /\ invocations' = [invocations EXCEPT ![<<path, stage>>] = @ + 1]
              /\ \E content \in {Truncated, store_after(store, path, call, stage, res)[path]} :
                    store' = write_file(store, path, content)
              /\ builds' = 0
              /\ raised' = "killed"
              /\ runLog' = [runLog EXCEPT !.calls[path] = @ + 1]
              /\ RunEnds(stage, FALSE, store')
    /\ UNCHANGED <<recordings, now, index, stage, first, other, saved, vIn, vOut>>

NextKilled ==
    \/ MainIngest
    \/ StartStage
    \/ LoadStep
    \/ AnalyzeStep
    \/ KilledInSave

SpecKilled == Init /\ [][NextKilled]_vars

\* C18 (atomic save): also when a stage run is killed while it saves a
\* record, every file of the store is a complete record that loads and
\* validates: the record as it was, or the record with the new facet.
C18_StoreAlwaysLoads ==
    \A id \in Records : CallAnalysis_model_validate(store[id]).ok

\* The records the run has dealt with so far.
Visited == runLog.processed \cup runLog.skipped \cup runLog.failed

\* C19 (order within a run): a stage run handles the records one at a time
\* in the sort order of their identifiers, each record finished before the
\* next is loaded, and when the run is over every record has been visited
\* exactly once.
C19_EachRecordVisitedInOrder ==
    /\ pc \in {"load", "analyze"} =>
          /\ call_paths = list_call_files(store)
          /\ Visited = {call_paths[i] : i \in 1..(pos - 1)}
    /\ RunOver => Visited = Records

\* C20 (stage order): a full pipeline run makes five passes in the order
\* sentiment, intent and topics, quality, compliance, outcome; a pass is
\* over before the next begins, and every run that reaches the analysis
\* step makes all five passes.
C20_FivePassesInOrder ==
    /\ (pipeline \in 1..5 /\ pc # "idle") => stage = StageOrder[pipeline]
    /\ (pipeline \in 2..5 /\ pc = "idle") =>
          lastRun.stage = StageOrder[pipeline - 1] /\ lastRun.ok
    /\ exit.why \in {"done", "exception"} => lastRun.stage = StageOrder[5]

(***************************************************************************)
(* The five stages run in any order, with an oracle that is a function of  *)
(* the request                                                             *)
(***************************************************************************)
\* build_request as it would be if the prompt also carried the sentiment
\* the record already has.
Mut_build_request(f, cl) ==
    [facet |-> f,
     call_metadata_json |-> cl.metadata,
     transcript |-> cl.transcript,
     sentiment |-> cl.sentiment]

\* The variables analyze_<facet>_for_call hands to chain.invoke: the
\* record's metadata as JSON and its transcript (the compliance stage adds
\* the configured phrase lists, which are the same for every record).
build_request(f, cl) ==
    [facet |-> f,
     call_metadata_json |-> cl.metadata,
     transcript |-> cl.transcript]

\* The answer of an oracle to a request: the oracle is a table of the
\* requests it knows; to any other request the call raises.
invoke(oracle, request) ==
    IF request \in DOMAIN oracle THEN oracle[request] ELSE Transport

\* The loop of run_<f>_for_all_calls over paths, from store st, to its end
\* or to the first exception: the store it leaves.
RECURSIVE run_loop(_, _, _, _)
run_loop(st, paths, f, oracle) ==
    IF paths = <<>> THEN st
    ELSE LET path == Head(paths)
             loaded == CallAnalysis_model_validate(st[path])
         IN  IF ~loaded.ok THEN st
             ELSE IF already_present(loaded.model, f)
             THEN run_loop(st, Tail(paths), f, oracle)
             ELSE LET res == analyze_for_call(
                                 f, invoke(oracle, build_request(f, loaded.model)))
                  IN  IF ~res.ok THEN st
                      ELSE run_loop(store_after(st, path, loaded.model, f, res),
                                    Tail(paths), f, oracle)

\* run_<f>_for_all_calls as a function of the store.
run_for_all_calls(st, f, oracle) == run_loop(st, list_call_files(st), f, oracle)

\* The runs of the stages of order, one after the other, each run to its
\* end or its exception.
RECURSIVE run_stages(_, _, _)
run_stages(st, order, oracle) ==
    IF order = <<>> THEN st
    ELSE run_stages(run_for_all_calls(st, Head(order), oracle), Tail(order), oracle)

\* The orders of the five stages.
StageOrders ==
    { o \in [1..5 -> Facets] : \A i, j \in 1..5 : i # j => o[i] # o[j] }

\* The stores ingestion leaves when every transcription it made has words.
IngestedStores ==
    { save_transcription_results(
          <<>>, transcribe_recordings(discover_wav_recordings(RecordingsDir), text),
          "client_123", 1) :
      text \in UNION {[S -> {"Hello"}] : S \in (SUBSET RecordingsDir) \ {{}}} }

\* The requests the stages send for the records of st as ingested.
Requests(st) ==
    { build_request(f, CallAnalysis_model_validate(st[id]).model) :
      f \in Facets, id \in DOMAIN st }

\* An answer the facet's schema accepts.
GoodPayload(f) == CHOOSE d \in OraclePayloads(f) : model_validate(f, d).ok

\* Oracles whose answer is a function of the request: a valid answer to
\* every request but at most one, and text that is not JSON to that one.
Oracles(st) ==
    { [r \in Requests(st) |->
          IF r \in B THEN BadJson ELSE JsonText(GoodPayload(r.facet))] :
      B \in {{}} \cup {{r} : r \in Requests(st)} }

InitPermute ==
    /\ InitOrchestrator
    /\ \E st \in IngestedStores :
          vIn \in [store : {st}, order : StageOrders, oracle : Oracles(st)]
    /\ vOut = NotRun

\* The stages run in the order of vIn, and in the fixed order, from the
\* same store.
Permute ==
    /\ vOut = NotRun
    /\ vOut' = [permuted |-> run_stages(vIn.store, vIn.order, vIn.oracle),
                fixed |-> run_stages(vIn.store, StageOrder, vIn.oracle)]
    /\ UNCHANGED <<recordings, store, now, index, runVars, invocations, lastRun,
                   first, builds, exit, saved, vIn>>

SpecPermute == InitPermute /\ [][Permute]_vars

StageSuccess ==
    /\ pc = "analyze"
    /\ call_paths[pos] \in runLog'.processed

\* C22 (frame of a successful stage step): processing a record in stage F
\* changes, in that record's file, only facet F and raw_llm_outputs[F]; its
\* metadata, transcript, custom_metrics, other facets and their raw outputs
\* stay as they were, and no other file of the store is written.
C22_StageStepFrame ==
    [][StageSuccess =>
          LET path == call_paths[pos]
          IN  /\ DOMAIN store' = DOMAIN store
              /\ \A id \in Records \ {path} : store'[id] = store[id]
              /\ DOMAIN store'[path] = DOMAIN store[path]
              /\ \A k \in DOMAIN store[path] \ {stage, "raw_llm_outputs"} :
                    store'[path][k] = store[path][k]
              /\ store'[path][stage] # None
              /\ DOMAIN RawOf(store', path) = DOMAIN RawOf(store, path) \cup {stage}
              /\ \A g \in DOMAIN RawOf(store, path) \ {stage} :
                    RawOf(store', path)[g] = RawOf(store, path)[g]]_vars

\* A run has just saved a record that already had another facet, in a
\* store with a second record.
C22_Witness ==
    /\ stage \in Facets
    /\ Cardinality(Records) = 2
    /\ \E id \in runLog.processed : \E g \in Facets \ {stage} :
          HasFacet(id, stage) /\ HasFacet(id, g)

\* Why a response with content fails: it is not text, it is text that is
\* not JSON, or it is JSON the schema rejects.
Cause(resp) ==
    IF ~resp.str THEN "type" ELSE IF ~resp.json THEN "format" ELSE "schema"

\* C23 (error kinds): the three causes of a stage failure (response not
\* text, text not JSON, JSON violating the schema) are raised as three
\* different kinds of error: the kind raised for one cause is never the
\* kind raised for another.
C23_ErrorKindsDistinct ==
    (RunOver /\ raised # "none" /\ response.kind = "content") =>
        \A r \in OracleResponses(stage) :
            (r.kind = "content" /\ ~analyze_for_call(stage, r).ok
               /\ Cause(r) # Cause(response))
            => exception_type(analyze_for_call(stage, r).error) # exception_type(raised)

\* C24 (no retry): within one stage run the oracle is invoked exactly once
\* for each record whose facet is null, whatever the outcome, never a
\* second time after a failure, and not at all for a record whose facet is
\* non-null.
C24_ExactlyOneInvocation ==
    /\ \A id \in CallIds : runLog.calls[id] <= 1
    /\ \A id \in runLog.skipped : runLog.calls[id] = 0
    /\ RunOver =>
          \A id \in Records :
              (id \in runLog.processed \/ ~HasFacet(id, stage)) => runLog.calls[id] = 1

\* C25 (range of quality scores): a call_quality payload whose
\* overall_quality_score is an integer outside 0..100 is rejected by
\* validation.
C25_QualityScoreInRange ==
    (vOut # NotRun /\ vIn.facet = "call_quality"
       /\ Has(vIn.data, "overall_quality_score")
       /\ vIn.data["overall_quality_score"] # None
       /\ vIn.data["overall_quality_score"][1] \notin 0..100)
    => ~vOut.ok

(***************************************************************************)
(* A store holding a file the program did not write as it is: a record     *)
(* with a field the schema does not define, or a file cut off by a kill    *)
(***************************************************************************)
\* The store st with the unknown field legacy_field added to the file of id.
WithUnknownField(st, id) ==
    [st EXCEPT ![id] = [k \in DOMAIN st[id] \cup {"legacy_field"} |->
                           IF k = "legacy_field" THEN Some("v1") ELSE st[id][k]]]

\* The stores ingestion leaves, whatever the transcriptions.
AnyIngestedStores ==
    { save_transcription_results(
          <<>>, transcribe_recordings(discover_wav_recordings(RecordingsDir), text),
          "client_123", 1) :
      text \in UNION {[S -> Transcripts] : S \in (SUBSET RecordingsDir) \ {{}}} }

\* An ingested store one file of which was given an unknown field (by an
\* earlier version of the schema, by hand) or was cut off.
ForeignStores ==
    UNION { UNION { {WithUnknownField(st, id), [st EXCEPT ![id] = Truncated]} :
                    id \in DOMAIN st } :
            st \in AnyIngestedStores }

InitForeign ==
    /\ \E st \in ForeignStores : InitState(RecordingsDir, <<>>, st)
    /\ vIn = [facet |-> "sentiment", data |-> <<>>]
    /\ vOut = NotRun

\* Stage runs, kills and index builds over such a store.
NextForeign ==
    \/ StartStage
    \/ LoadStep
    \/ AnalyzeStep
    \/ KilledInSave
    \/ BuildIndex

SpecForeign == InitForeign /\ [][NextForeign]_vars

\* C26 (unknown fields pass through): when a stage run loads, enriches and
\* saves a record whose file carries fields the schema does not define, the
\* file it writes carries those fields unchanged.
C26_UnknownFieldsKept ==
    [][StageSuccess =>
          LET path == call_paths[pos]
          IN  \A k \in DOMAIN store[path] \ CallAnalysisFields :
                  /\ k \in DOMAIN store'[path]
                  /\ store'[path][k] = store[path][k]]_vars

\* A file of the store does not load.
SomeFileFailsToLoad ==
    \E id \in Records : ~CallAnalysis_model_validate(store[id]).ok

\* Every file loads and no transcript has anything but whitespace.
NoTranscriptToIndex ==
    \A id \in Records :
        /\ CallAnalysis_model_validate(store[id]).ok
        /\ strip(store[id].transcript) = ""

\* C30 (all-or-nothing build): a build_calls_index during which a record
\* fails to load or validate, or which finds no record with a non-blank
\* transcript, leaves the index exactly as it was.
C30_FailedBuildLeavesIndex ==
    [][(BuildIndex /\ (SomeFileFailsToLoad \/ NoTranscriptToIndex)) =>
          index' = index]_vars

\* An index with documents, and a build run since a file of the store was
\* cut off while a second file still loads and has a transcript.
C30_Witness ==
    /\ builds >= 1
    /\ index # <<>>
    /\ \E id, id2 \in Records :
          /\ store[id] = Truncated
          /\ CallAnalysis_model_validate(store[id2]).ok
          /\ strip(store[id2].transcript) # ""


\* The documents one build_calls_index would submit for the store as it is.
Submitted == collect_entries(store, list_call_files(store))

\* C28 (store and index name the same record): the name of every file of the
\* store is the call_id inside that file, after any ingestion and stage
\* runs, and the documents one index build submits have pairwise distinct
\* ids, each the name of a file of the store.
C28_FileNameIsCallId ==
    /\ \A path \in Records : store[path].metadata.call_id = path
    /\ \A i, j \in 1..Len(Submitted) :
          Submitted[i].id = Submitted[j].id => i = j
    /\ \A i \in 1..Len(Submitted) : Submitted[i].id \in Records

\* Two records, one of them saved again by a stage run, and a build that
\* would submit both.
C28_Witness ==
    /\ Cardinality(Records) = 2
    /\ \E path \in Records : \E f \in Facets : HasFacet(path, f)
    /\ Len(Submitted) = 2


(***************************************************************************)
(* Two runs over the same data/calls: a second process runs                *)
(* run_<facet>_for_all_calls while the first is in its loop.  `other` is   *)
(* the second process: its call_paths, its position and its local call.    *)
(***************************************************************************)
\* The second run returned or an exception left it.
OtherEnds == [NoOther EXCEPT !.stage = other.stage, !.processed = other.processed]

\* The end of one loop iteration of the second run.
OtherAdvance(processed) ==
    IF other.pos = Len(other.call_paths)
    THEN [OtherEnds EXCEPT !.processed = processed]
    ELSE [other EXCEPT !.pos = @ + 1, !.pc = "load", !.call = None,
                       !.processed = processed]

\* Entry of run_<f>_for_all_calls in the second process, for another stage
\* than the one the first process is running.
OtherBegin ==
    /\ pc # "idle" /\ other.pc = "idle"
    /\ \E f \in Facets \ {stage} :
          other' = IF list_call_files(store) = <<>>
                   THEN [NoOther EXCEPT !.stage = f]
                   ELSE [pc |-> "load", stage |-> f,
                         call_paths |-> list_call_files(store), pos |-> 1,
                         call |-> None, processed |-> {}]
    /\ UNCHANGED <<recordings, store, now, index, stage, call_paths, pos, pc, call,
                   pipeline, raised, response, runLog, invocations, lastRun, first,
                   builds, exit, saved, vIn, vOut>>

\* Top of the loop body in the second process.
OtherLoad ==
    /\ other.pc = "load"
    /\ LET path == other.call_paths[other.pos]
           loaded == CallAnalysis_model_validate(store[path])
       IN  other' = IF ~loaded.ok THEN OtherEnds
                    ELSE IF already_present(loaded.model, other.stage)
                    THEN OtherAdvance(other.processed)
                    ELSE [other EXCEPT !.pc = "analyze", !.call = loaded.model]
    /\ UNCHANGED <<recordings, store, now, index, stage, call_paths, pos, pc, call,
                   pipeline, raised, response, runLog, invocations, lastRun, first,
                   builds, exit, saved, vIn, vOut>>

\* Rest of the loop body in the second process: the oracle call, the
\* assignment to its local call, save_call of that whole call.
OtherAnalyze ==
    /\ other.pc = "analyze"
    /\ TotalInvocations < MaxOracleCalls
    /\ \E resp \in OracleResponses(other.stage) :
          LET path == other.call_paths[other.pos]
              res == analyze_for_call(other.stage, resp)
          IN  /\ invocations' = [invocations EXCEPT ![<<path, other.stage>>] = @ + 1]
              /\ store' = store_after(store, path, other.call, other.stage, res)
              /\ builds' = IF store' = store THEN builds ELSE 0
              /\ other' = IF res.ok
                          THEN OtherAdvance(other.processed \cup {path})
                          ELSE OtherEnds
    /\ UNCHANGED <<recordings, now, index, stage, call_paths, pos, pc, call, pipeline,
                   raised, response, runLog, lastRun, first, exit, saved, vIn, vOut>>

InitConcurrent ==
    /\ \E st \in IngestedStores : InitState(RecordingsDir, <<>>, st)
    /\ vIn = [facet |-> "sentiment", data |-> <<>>]
    /\ vOut = NotRun

\* Two stage runs interleaved step by step.
NextConcurrent ==
    \/ StartStage
    \/ LoadStep
    \/ AnalyzeStep
    \/ OtherBegin
    \/ OtherLoad
    \/ OtherAnalyze

SpecConcurrent == InitConcurrent /\ [][NextConcurrent]_vars

\* C29 (interleaved runs): when runs of two different stages interleave
\* over the same store, every facet either run saved is still in the
\* record: no record a run processed has that run's facet null.
C29_NoFacetLost ==
    /\ \A path \in runLog.processed : HasFacet(path, stage)
    /\ \A path \in other.processed : HasFacet(path, other.stage)


(***************************************************************************)
(* Repeated runs of one stage.  vIn.facet is the stage and vIn.never the   *)
(* records for which the oracle call fails every time: for the others a    *)
(* call may fail, and succeeds in the end if it is made again and again.   *)
(***************************************************************************)
InitRestart ==
    /\ \E st \in IngestedStores : InitState(RecordingsDir, <<>>, st)
    /\ vIn \in [facet : {"outcome_and_followup"}, never : SUBSET CallIds]
    /\ vOut = NotRun

\* run_outcome_for_all_calls is called, again after it ended.
RestartStage ==
    /\ pc = "idle" /\ pipeline = 0
    /\ RunBegin(vIn.facet)

\* Rest of the loop body with the answer resp of the oracle; the count of
\* invocations stops at MaxOracleCalls.
AnalyzeWith(resp) ==
    LET path == call_paths[pos]
        res == analyze_for_call(stage, resp)
    IN  /\ response' = resp
        /\ invocations' = [invocations EXCEPT ![<<path, stage>>] =
                              IF @ < MaxOracleCalls THEN @ + 1 ELSE @]
        /\ store' = store_after(store, path, call, stage, res)
        /\ builds' = IF store' = store THEN builds ELSE 0
        /\ IF res.ok
           THEN /\ runLog' = [runLog EXCEPT !.processed = @ \cup {path},
                                            !.calls[path] = @ + 1]
                /\ Advance(store')
                /\ UNCHANGED raised
           ELSE /\ raised' = res.error
                /\ runLog' = [runLog EXCEPT !.failed = @ \cup {path},
                                            !.calls[path] = @ + 1]
                /\ RunEnds(stage, FALSE, store')
        /\ UNCHANGED <<recordings, now, index, stage, first, other, saved, vIn, vOut>>

\* The oracle call of a record not in vIn.never succeeds.
AnalyzeSucceeds ==
    /\ pc = "analyze"
    /\ call_paths[pos] \notin vIn.never
    /\ \E resp \in OracleResponses(stage) :
          /\ analyze_for_call(stage, resp).ok
          /\ AnalyzeWith(resp)

\* The oracle call fails.
AnalyzeFails ==
    /\ pc = "analyze"
    /\ \E resp \in OracleResponses(stage) :
          /\ ~analyze_for_call(stage, resp).ok
          /\ AnalyzeWith(resp)

NextRestart ==
    \/ RestartStage
    \/ LoadStep
    \/ AnalyzeSucceeds
    \/ AnalyzeFails

\* The stage is run again whenever it has ended, a run goes on to its end,
\* and a call that can succeed does so if made again and again.
SpecRestart ==
    /\ InitRestart
    /\ [][NextRestart]_vars
    /\ WF_vars(RestartStage)
    /\ WF_vars(LoadStep)
    /\ WF_vars(AnalyzeSucceeds \/ AnalyzeFails)
    /\ SF_vars(AnalyzeSucceeds)

\* A record that has the facet gets no oracle call and is not written.
EnrichedIsSkipped ==
    [][\A id \in Records :
          HasFacet(id, vIn.facet) =>
              /\ invocations'[<<id, vIn.facet>>] = invocations[<<id, vIn.facet>>]
              /\ store'[id] = store[id]]_vars

\* Once every record has the facet, runs change nothing in the store.
EnrichedStoreIsStable ==
    [][(\A id \in Records : HasFacet(id, vIn.facet)) => store' = store]_vars

\* When every oracle call can succeed, the runs reach a store in which
\* every record has the facet.
AllEnrichedInTheEnd ==
    (vIn.never = {}) => <>[](\A id \in Records : HasFacet(id, vIn.facet))

\* The runs reach a store in which every record whose oracle call can
\* succeed has the facet.
OthersEnrichedInTheEnd ==
    <>[](\A id \in Records \ vIn.never : HasFacet(id, vIn.facet))

\* C27 (restartability): a stage run again after a stop skips the records
\* enriched before the stop without an oracle call; if every record's
\* oracle call succeeds in the end, repeated runs reach a store in which
\* every record has the facet and further runs change nothing; a record
\* whose oracle call never succeeds does not keep the records sorted after
\* it from receiving the facet in the end.
C27_Restartable ==
    /\ EnrichedIsSkipped
    /\ EnrichedStoreIsStable
    /\ AllEnrichedInTheEnd
    /\ OthersEnrichedInTheEnd

====
